---- MODULE Spec2Model ----
\* Authentication / authorization decision layer of fastapi_example:
\* credential store (settings.py), token codec (auth/oauth_auth.py),
\* the three resolvers (auth/api_key_auth.py, auth/oauth_auth.py,
\* auth/unified_auth.py), the role gate and the router wiring (main.py).
EXTENDS Integers, Sequences, FiniteSets, TLC

VARIABLES
    env_api_keys,  \* members of the JSON object configured as API_KEYS, in textual order
    settings,      \* the cached Settings object: [status, api_keys]
    now,           \* wall clock, in ticks (TicksPerSec ticks = one second)
    pc,            \* "boot" | "idle" | "await_post" | "await_get" | "done" | "crashed"
    request,       \* [route, authorization] of the request being served
    user_info,     \* request.state.user_info (None when never set)
    response,      \* [status_code, detail]; status_code 0 = nothing sent yet
    handler_ran,   \* the route handler was executed for this request
    calls,         \* operations the resolver performed for this request, in order
    gate,          \* outcome of check_role on this request (None when not called)
    input_data,    \* operation and InputData body read by the handler that ran
    handler_result, \* "result" of the handler's 200 response (None when there is none)
    issued,        \* arguments and outcome of a create_access_token call (None when not called)
    flow,          \* an OAuth flow request: [provider, outbound, authorization_url, access_token]
    inflight       \* concurrently processed requests: slot -> [at, route, authorization, seen,
                   \*     user_info, response, served]

vars == <<env_api_keys, settings, now, pc, request, user_info, response,
          handler_ran, calls, gate, input_data, handler_result, issued, flow, inflight>>

-----------------------------------------------------------------------------
\* Bounds of the model

MaxMembers == 2      \* members in the configured API_KEYS object
MaxNow == 2          \* last clock tick
MaxExp == 1          \* largest exp claim (seconds) of a presented token
MaxDelta == 2        \* largest |expires_delta| (ticks) passed to create_access_token
TicksPerSec == 2     \* clock resolution
MaxInflight == 2     \* requests processed concurrently

-----------------------------------------------------------------------------
\* Python values

\* Optional values (None / present) are sequences of length 0 or 1.
None == <<>>
Some(x) == <<x>>

\* bool(s) of a str
Truthy(s) == s # ""

\* str.lower() on the authorization schemes that occur
lower(s) == CASE s = "Bearer" -> "bearer"
              [] s = "Basic"  -> "basic"
              [] OTHER        -> s

\* any_role_in, demanding every allowed role instead of one of them
all_roles_in(allowed_roles, roles) ==
    \A i \in DOMAIN allowed_roles : \E j \in DOMAIN roles : allowed_roles[i] = roles[j]

\* any(role in roles for role in allowed_roles)
any_role_in(allowed_roles, roles) ==
    \E i \in DOMAIN allowed_roles : \E j \in DOMAIN roles : allowed_roles[i] = roles[j]

\* bool(lst) of an optional list: None and [] are both falsy
ListTruthy(opt_list) == opt_list # None /\ Len(opt_list[1]) > 0

-----------------------------------------------------------------------------
\* Credential strings.  A string is either plain text or a compact JWS
\* (header.payload.signature) which is described by the key that signed it and
\* its claim set; absent claims are None.

Text(s) == [jws |-> FALSE, text |-> s]

Jws(key, sub, exp, provider, roles) ==
    [jws |-> TRUE, key |-> key,
     payload |-> [sub |-> sub, exp |-> exp, provider |-> provider, roles |-> roles]]

oauth_secret_key == "process-secret"
OtherSecret == "other-secret"
\* the signature of the string verifies under no key (payload altered after
\* signing, or a made-up signature)
NoKey == "no-key"

Subjects == {None, Some(""), Some("test@example.com")}
Expiries == {None} \cup {Some(e) : e \in 0..MaxExp}
Providers == {None, Some("google")}
RoleClaims == {None, Some(<<"admin">>)}

Tokens == {Jws(k, s, e, p, r) : k \in {oauth_secret_key, OtherSecret, NoKey},
                                 s \in Subjects, e \in Expiries,
                                 p \in Providers, r \in RoleClaims}

AdminKey == Text("admin-key")
UserKey == Text("user-key")
\* a correctly signed token (expiring at second 1) that is also configured as an API key
TokenKey == Jws(oauth_secret_key, Some("test@example.com"), Some(1), Some("google"), None)

Credentials == Tokens \cup {AdminKey, UserKey, Text("invalid_token"), Text("")}

\* Authorization header: None, or scheme and parameter
Authorizations ==
    {None}
    \cup {Some([scheme |-> "Bearer", param |-> c]) : c \in Credentials}
    \cup {Some([scheme |-> s, param |-> c]) : s \in {"bearer", "Basic"}, c \in {AdminKey, TokenKey}}

-----------------------------------------------------------------------------
\* Credential store: settings.py

AdminEntry == [username |-> "admin", roles |-> <<"user", "admin">>]
UserEntry == [username |-> "user1", roles |-> <<"user">>]
BlankEntry == [username |-> "", roles |-> <<"admin">>]

\* "key": {username, roles} members that may occur in the configured object
ConfigMembers == {<<AdminKey, AdminEntry>>, <<UserKey, UserEntry>>,
                  <<AdminKey, UserEntry>>, <<UserKey, BlankEntry>>,
                  <<TokenKey, AdminEntry>>}

RECURSIVE SeqsUpTo(_, _)
SeqsUpTo(S, n) ==
    IF n = 0 THEN {<<>>}
    ELSE LET shorter == SeqsUpTo(S, n - 1)
         IN shorter \cup {Append(q, m) : q \in {r \in shorter : Len(r) = n - 1}, m \in S}

Configurations == SeqsUpTo(ConfigMembers, MaxMembers)

Range(q) == {q[i] : i \in DOMAIN q}

\* json.loads of an object: a dict; a repeated name keeps the value of its last
\* occurrence.
json_loads(members) ==
    [k \in {members[i][1] : i \in DOMAIN members} |->
        LET last == CHOOSE i \in DOMAIN members :
                        /\ members[i][1] = k
                        /\ \A j \in DOMAIN members : members[j][1] = k => j <= i
        IN members[last][2]]

\* list(d.keys()) of the dict built from members: each name once, in the order
\* of first insertion.
RECURSIVE dict_keys(_)
dict_keys(members) ==
    IF members = <<>> THEN <<>>
    ELSE LET front == dict_keys(SubSeq(members, 1, Len(members) - 1))
             k == members[Len(members)][1]
         IN IF k \in Range(front) THEN front ELSE Append(front, k)

\* Settings.ensure_unique_values, applied to the decoded API_KEYS value
ensure_unique_values(members) ==
    LET api_keys == json_loads(members)
        secrets == dict_keys(members)
    IN IF Len(secrets) # Cardinality(Range(secrets))
       THEN [status |-> "error", api_keys |-> api_keys]
       ELSE [status |-> "ok", api_keys |-> api_keys]

\* dict.get(key) -> value | None
dict_get(d, k) == IF k \in DOMAIN d THEN Some(d[k]) ELSE None

-----------------------------------------------------------------------------
\* Token codec: auth/oauth_auth.py (PyJWT, HS256)

\* jwt.decode(token, key, algorithms=["HS256"]): the signature is checked first,
\* then exp when the claim is present (expired when exp <= now); no claim is
\* required.
jwt_decode(token, key, t) ==
    IF ~token.jws THEN [exc |-> "DecodeError", payload |-> None]
    ELSE IF token.key # key THEN [exc |-> "InvalidSignatureError", payload |-> None]
    ELSE IF token.payload.exp # None /\ token.payload.exp[1] * TicksPerSec <= t
         THEN [exc |-> "ExpiredSignatureError", payload |-> None]
    ELSE [exc |-> "", payload |-> Some(token.payload)]

\* jwt.encode(claims, key, algorithm="HS256"); a datetime exp is written as
\* whole seconds since the epoch.
jwt_encode(data, exp_ticks, key) ==
    Jws(key, data.sub, Some(exp_ticks \div TicksPerSec), data.provider, data.roles)

NoException == [status_code |-> 0, detail |-> ""]
HTTPException(code, detail) == [status_code |-> code, detail |-> detail]

\* verify_access_token, decoding without checking the signature
verify_access_token_unverified(token, t) ==
    LET d == IF token.jws THEN jwt_decode(token, token.key, t)
             ELSE jwt_decode(token, oauth_secret_key, t)
    IN IF d.exc = "" THEN [status_code |-> 0, detail |-> "", payload |-> d.payload]
       ELSE IF d.exc = "ExpiredSignatureError"
            THEN [status_code |-> 401, detail |-> "Token has expired", payload |-> None]
       ELSE [status_code |-> 401, detail |-> "Invalid token", payload |-> None]

\* verify_access_token, reporting an expired token as an invalid one
verify_access_token_one_detail(token, t) ==
    LET d == jwt_decode(token, oauth_secret_key, t)
    IN IF d.exc = "" THEN [status_code |-> 0, detail |-> "", payload |-> d.payload]
       ELSE [status_code |-> 401, detail |-> "Invalid token", payload |-> None]

\* auth/oauth_auth.py: verify_access_token
verify_access_token(token, t) ==
    LET d == jwt_decode(token, oauth_secret_key, t)
    IN IF d.exc = "" THEN [status_code |-> 0, detail |-> "", payload |-> d.payload]
       ELSE IF d.exc = "ExpiredSignatureError"
            THEN [status_code |-> 401, detail |-> "Token has expired", payload |-> None]
       ELSE [status_code |-> 401, detail |-> "Invalid token", payload |-> None]

\* Settings.oauth_access_token_expire_minutes (read from the environment)
oauth_access_token_expire_minutes == 30

\* datetime.timezone has the attribute utc but no attribute UTC
timezone_has_UTC == FALSE

\* create_access_token(data, expires_delta): expires_delta is None or a number
\* of ticks; a zero timedelta is falsy and is replaced by the default.
create_access_token(data, expires_delta, t) ==
    IF ~timezone_has_UTC THEN [exc |-> "AttributeError", token |-> None]
    ELSE LET delta == IF expires_delta # None /\ expires_delta[1] # 0
                      THEN expires_delta[1]
                      ELSE oauth_access_token_expire_minutes * 60 * TicksPerSec
         IN [exc |-> "", token |-> Some(jwt_encode(data, t + delta, oauth_secret_key))]

-----------------------------------------------------------------------------
\* Security schemes of the framework (auto_error=False)

\* HTTPBearer: None without a header, without a parameter or with another scheme
HTTPBearer(authorization) ==
    IF authorization = None THEN None
    ELSE IF authorization[1].param = Text("") THEN None
    ELSE IF lower(authorization[1].scheme) # "bearer" THEN None
    ELSE Some([scheme |-> authorization[1].scheme, credentials |-> authorization[1].param])

\* OAuth2AuthorizationCodeBearer, taking the parameter of any scheme
OAuth2AnyScheme(authorization) ==
    IF authorization = None THEN None ELSE Some(authorization[1].param)

\* OAuth2AuthorizationCodeBearer: None without a header or with another scheme
OAuth2AuthorizationCodeBearer(authorization) ==
    IF authorization = None \/ lower(authorization[1].scheme) # "bearer" THEN None
    ELSE Some(authorization[1].param)

-----------------------------------------------------------------------------
\* Resolvers.  Each returns the exception raised (status_code 0 = none), the
\* value stored in request.state.user_info and the operations performed.

\* one performed operation: verify (result "" = accepted, else the failure
\* detail) or lookup (result "found" / "absent")
Call(op, arg, result) == [op |-> op, arg |-> arg, result |-> result]

Outcome(exc, info, ops) ==
    [status_code |-> exc.status_code, detail |-> exc.detail, user_info |-> info, calls |-> ops]

\* bearer_auth, looking up the hash of the presented key (utils.hash_api_key)
\* in the table of plain keys
bearer_auth_hashed(api_keys, allowed_roles, credentials) ==
    IF credentials = None \/ lower(credentials[1].scheme) # "bearer"
    THEN Outcome(HTTPException(401, "Invalid or missing Authorization header"), None, <<>>)
    ELSE LET token == credentials[1].credentials
             found == dict_get(api_keys, Text("sha256-hexdigest"))
             ops == <<Call("lookup", token, IF found = None THEN "absent" ELSE "found")>>
         IN IF found = None
            THEN Outcome(HTTPException(401, "Invalid API Key"), None, ops)
            ELSE LET username == found[1].username
                     roles == found[1].roles
                 IN IF ListTruthy(allowed_roles) /\ ~any_role_in(allowed_roles[1], roles)
                    THEN Outcome(HTTPException(403, "User does not have required role"), None, ops)
                    ELSE Outcome(NoException,
                                 Some([sub |-> username, auth_type |-> "api_key", roles |-> roles]),
                                 ops)

\* bearer_auth, checking the roles (none for an unknown key) before the lookup
\* result
bearer_auth_roles_first(api_keys, allowed_roles, credentials) ==
    IF credentials = None \/ lower(credentials[1].scheme) # "bearer"
    THEN Outcome(HTTPException(401, "Invalid or missing Authorization header"), None, <<>>)
    ELSE LET token == credentials[1].credentials
             found == dict_get(api_keys, token)
             ops == <<Call("lookup", token, IF found = None THEN "absent" ELSE "found")>>
             roles == IF found = None THEN <<>> ELSE found[1].roles
         IN IF ListTruthy(allowed_roles) /\ ~any_role_in(allowed_roles[1], roles)
            THEN Outcome(HTTPException(403, "User does not have required role"), None, ops)
            ELSE IF found = None
            THEN Outcome(HTTPException(401, "Invalid API Key"), None, ops)
            ELSE Outcome(NoException,
                         Some([sub |-> found[1].username, auth_type |-> "api_key",
                               roles |-> roles]),
                         ops)

\* bearer_auth, setting request.state.user_info before the role check
bearer_auth_attach_first(api_keys, allowed_roles, credentials) ==
    IF credentials = None \/ lower(credentials[1].scheme) # "bearer"
    THEN Outcome(HTTPException(401, "Invalid or missing Authorization header"), None, <<>>)
    ELSE LET token == credentials[1].credentials
             found == dict_get(api_keys, token)
             ops == <<Call("lookup", token, IF found = None THEN "absent" ELSE "found")>>
         IN IF found = None
            THEN Outcome(HTTPException(401, "Invalid API Key"), None, ops)
            ELSE LET username == found[1].username
                     roles == found[1].roles
                     user_data == Some([sub |-> username, auth_type |-> "api_key",
                                        roles |-> roles])
                 IN IF ListTruthy(allowed_roles) /\ ~any_role_in(allowed_roles[1], roles)
                    THEN Outcome(HTTPException(403, "User does not have required role"),
                                 user_data, ops)
                    ELSE Outcome(NoException, user_data, ops)

\* auth/api_key_auth.py: get_bearer_dependency(api_keys, allowed_roles).bearer_auth
bearer_auth(api_keys, allowed_roles, credentials) ==
    IF credentials = None \/ lower(credentials[1].scheme) # "bearer"
    THEN Outcome(HTTPException(401, "Invalid or missing Authorization header"), None, <<>>)
    ELSE LET token == credentials[1].credentials
             found == dict_get(api_keys, token)
             ops == <<Call("lookup", token, IF found = None THEN "absent" ELSE "found")>>
         IN IF found = None
            THEN Outcome(HTTPException(401, "Invalid API Key"), None, ops)
            ELSE LET username == found[1].username
                     roles == found[1].roles
                 IN IF ListTruthy(allowed_roles) /\ ~any_role_in(allowed_roles[1], roles)
                    THEN Outcome(HTTPException(403, "User does not have required role"), None, ops)
                    ELSE Outcome(NoException,
                                 Some([sub |-> username, auth_type |-> "api_key", roles |-> roles]),
                                 ops)

\* get_current_oauth_user, copying the token's roles claim into the identity
get_current_oauth_user_with_roles(token, t) ==
    IF token = None
    THEN Outcome(HTTPException(401, "Not authenticated"), None, <<>>)
    ELSE LET v == verify_access_token(token[1], t)
             ops == <<Call("verify", token[1], v.detail)>>
         IN IF v.status_code # 0
            THEN Outcome(HTTPException(v.status_code, v.detail), None, ops)
            ELSE LET payload == v.payload[1]
                 IN IF payload.sub = None
                    THEN Outcome(HTTPException(401, "Invalid token payload"), None, ops)
                    ELSE Outcome(NoException,
                                 Some([sub |-> payload.sub[1], auth_type |-> "oauth",
                                       provider |-> IF payload.provider = None THEN "unknown"
                                                    ELSE payload.provider[1],
                                       roles |-> IF payload.roles = None THEN <<>>
                                                 ELSE payload.roles[1]]),
                                 ops)

\* get_current_oauth_user, taking a credential that is not a token for an API key
get_current_oauth_user_or_key(token, t) ==
    IF token = None
    THEN Outcome(HTTPException(401, "Not authenticated"), None, <<>>)
    ELSE IF ~token[1].jws
    THEN Outcome(NoException,
                 Some([sub |-> token[1].text, auth_type |-> "api_key", roles |-> <<>>]),
                 <<>>)
    ELSE LET v == verify_access_token(token[1], t)
             ops == <<Call("verify", token[1], v.detail)>>
         IN IF v.status_code # 0
            THEN Outcome(HTTPException(v.status_code, v.detail), None, ops)
            ELSE LET payload == v.payload[1]
                 IN IF payload.sub = None
                    THEN Outcome(HTTPException(401, "Invalid token payload"), None, ops)
                    ELSE Outcome(NoException,
                                 Some([sub |-> payload.sub[1], auth_type |-> "oauth",
                                       provider |-> IF payload.provider = None THEN "unknown"
                                                    ELSE payload.provider[1]]),
                                 ops)

\* auth/oauth_auth.py: get_current_oauth_user
get_current_oauth_user(token, t) ==
    IF token = None
    THEN Outcome(HTTPException(401, "Not authenticated"), None, <<>>)
    ELSE LET v == verify_access_token(token[1], t)
             ops == <<Call("verify", token[1], v.detail)>>
         IN IF v.status_code # 0
            THEN Outcome(HTTPException(v.status_code, v.detail), None, ops)
            ELSE LET payload == v.payload[1]
                 IN IF payload.sub = None
                    THEN Outcome(HTTPException(401, "Invalid token payload"), None, ops)
                    ELSE Outcome(NoException,
                                 Some([sub |-> payload.sub[1], auth_type |-> "oauth",
                                       provider |-> IF payload.provider = None THEN "unknown"
                                                    ELSE payload.provider[1]]),
                                 ops)

\* try_api_key, forgetting the roles of the stored entry
try_api_key_no_roles(api_keys, token, ops) ==
    LET found == dict_get(api_keys, token)
        ops2 == Append(ops, Call("lookup", token, IF found = None THEN "absent" ELSE "found"))
    IN IF found # None /\ DOMAIN found[1] # {}
       THEN Outcome(NoException,
                    Some([sub |-> found[1].username, auth_type |-> "api_key", roles |-> <<>>]),
                    ops2)
       ELSE Outcome(HTTPException(401, "Invalid authentication credentials"), None, ops2)

\* auth/unified_auth.py: the API-key half of authenticate_request (lines 58-79)
try_api_key(api_keys, token, ops) ==
    LET found == dict_get(api_keys, token)
        ops2 == Append(ops, Call("lookup", token, IF found = None THEN "absent" ELSE "found"))
    IN IF found # None /\ DOMAIN found[1] # {}
       THEN Outcome(NoException,
                    Some([sub |-> found[1].username, auth_type |-> "api_key",
                          roles |-> found[1].roles]),
                    ops2)
       ELSE Outcome(HTTPException(401, "Invalid authentication credentials"), None, ops2)

\* authenticate_request, consulting the API-key table before the token codec
authenticate_request_key_first(api_keys, credentials, t) ==
    IF credentials = None \/ lower(credentials[1].scheme) # "bearer"
    THEN Outcome(HTTPException(401, "Invalid or missing Authorization header"), None, <<>>)
    ELSE LET token == credentials[1].credentials
             k == try_api_key(api_keys, token, <<>>)
             v == verify_access_token(token, t)
             ops == Append(k.calls, Call("verify", token, v.detail))
         IN IF k.status_code = 0 THEN k
            ELSE IF v.status_code = 0 /\ v.payload[1].sub # None /\ Truthy(v.payload[1].sub[1])
            THEN Outcome(NoException,
                         Some([sub |-> v.payload[1].sub[1], auth_type |-> "oauth",
                               provider |-> IF v.payload[1].provider = None THEN "unknown"
                                            ELSE v.payload[1].provider[1]]),
                         ops)
            ELSE Outcome(HTTPException(401, "Invalid authentication credentials"), None, ops)

\* authenticate_request, letting the token codec's failure reach the client
authenticate_request_leaky(api_keys, credentials, t) ==
    IF credentials = None \/ lower(credentials[1].scheme) # "bearer"
    THEN Outcome(HTTPException(401, "Invalid or missing Authorization header"), None, <<>>)
    ELSE LET token == credentials[1].credentials
             v == verify_access_token(token, t)
             ops == <<Call("verify", token, v.detail)>>
             k == try_api_key(api_keys, token, ops)
         IN IF v.status_code = 0 /\ v.payload[1].sub # None /\ Truthy(v.payload[1].sub[1])
            THEN Outcome(NoException,
                         Some([sub |-> v.payload[1].sub[1], auth_type |-> "oauth",
                               provider |-> IF v.payload[1].provider = None THEN "unknown"
                                            ELSE v.payload[1].provider[1]]),
                         ops)
            ELSE IF k.status_code # 0 /\ v.status_code # 0
            THEN Outcome(HTTPException(v.status_code, v.detail), None, k.calls)
            ELSE k

\* auth/unified_auth.py: authenticate_request
authenticate_request(api_keys, credentials, t) ==
    IF credentials = None \/ lower(credentials[1].scheme) # "bearer"
    THEN Outcome(HTTPException(401, "Invalid or missing Authorization header"), None, <<>>)
    ELSE LET token == credentials[1].credentials
             v == verify_access_token(token, t)
             ops == <<Call("verify", token, v.detail)>>
         IN IF v.status_code = 0 /\ v.payload[1].sub # None /\ Truthy(v.payload[1].sub[1])
            THEN Outcome(NoException,
                         Some([sub |-> v.payload[1].sub[1], auth_type |-> "oauth",
                               provider |-> IF v.payload[1].provider = None THEN "unknown"
                                            ELSE v.payload[1].provider[1]]),
                         ops)
            ELSE try_api_key(api_keys, token, ops)

\* check_role, applying the role check to oauth identities (which carry no roles)
check_role_no_bypass(info, required_roles) ==
    IF info = None THEN HTTPException(401, "Not authenticated")
    ELSE IF ListTruthy(required_roles)
            /\ (info[1].auth_type = "oauth" \/ ~any_role_in(required_roles[1], info[1].roles))
         THEN HTTPException(403, "Insufficient permissions")
    ELSE NoException

\* auth/unified_auth.py: require_role(required_roles).check_role
check_role(info, required_roles) ==
    IF info = None THEN HTTPException(401, "Not authenticated")
    ELSE IF info[1].auth_type = "oauth" THEN NoException
    ELSE IF ListTruthy(required_roles) /\ ~any_role_in(required_roles[1], info[1].roles)
         THEN HTTPException(403, "Insufficient permissions")
    ELSE NoException

-----------------------------------------------------------------------------
\* Pre-configured dependencies (auth/api_key_auth.py:81-85) and wiring (main.py)

AdminRoles == Some(<<"admin">>)
UserRoles == Some(<<"admin", "user">>)

auth_admin(api_keys, credentials) == bearer_auth(api_keys, AdminRoles, credentials)
auth_user(api_keys, credentials) == bearer_auth(api_keys, UserRoles, credentials)
auth_any(api_keys, credentials) == bearer_auth(api_keys, None, credentials)

RequiredRoleSets == {None, Some(<<>>), AdminRoles, UserRoles}

\* claim sets and lifetimes handed to create_access_token
TokenData == {[sub |-> s, provider |-> p, roles |-> None] :
                  s \in {Some("test@example.com")}, p \in Providers}
Deltas == {None} \cup {Some(d) : d \in (0 - MaxDelta)..MaxDelta}

NoRequest == [route |-> "", authorization |-> None]

-----------------------------------------------------------------------------
\* Handlers: workers/math_operations.py and routers/*.py

\* models/input.py: InputData bodies (A / B is exact for these values)
InputData == {[A |-> 10, B |-> b] : b \in {0, 5}}
MathOps == {"add", "subtract", "multiply", "divide"}
NoInput == [op |-> "", A |-> 0, B |-> 0]

add_numbers(a, b) == a + b
subtract_numbers(a, b) == a - b
multiply_numbers(a, b) == a * b

\* divide_numbers raises ValueError("Cannot divide by zero") when b == 0
divide_numbers(a, b) ==
    IF b = 0 THEN [raised |-> TRUE, message |-> "Cannot divide by zero", value |-> None]
    ELSE [raised |-> FALSE, message |-> "", value |-> Some(a \div b)]

Ok200(value) == [status_code |-> 200, detail |-> "", result |-> Some(value)]

\* an exception that no handler catches: the framework answers 500 with the
\* fixed text "Internal Server Error"
InternalServerError == [status_code |-> 500, detail |-> "Internal Server Error", result |-> None]

\* routers/production.py: add, subtract, multiply, divide (ValueError caught)
production_handler(op, a, b) ==
    CASE op = "add"      -> Ok200(add_numbers(a, b))
      [] op = "subtract" -> Ok200(subtract_numbers(a, b))
      [] op = "multiply" -> Ok200(multiply_numbers(a, b))
      [] OTHER           ->
            LET q == divide_numbers(a, b)
            IN IF q.raised THEN [status_code |-> 500, detail |-> q.message, result |-> None]
               ELSE Ok200(q.value[1])

\* routers/unified.py: add, subtract, multiply, divide (ValueError not caught)
unified_handler(op, a, b) ==
    CASE op = "add"      -> Ok200(add_numbers(a, b))
      [] op = "subtract" -> Ok200(subtract_numbers(a, b))
      [] op = "multiply" -> Ok200(multiply_numbers(a, b))
      [] OTHER           ->
            LET q == divide_numbers(a, b)
            IN IF q.raised THEN InternalServerError ELSE Ok200(q.value[1])

\* routers/oauth_protected.py: add, subtract, multiply, divide (ValueError not caught)
oauth_protected_handler(op, a, b) ==
    CASE op = "add"      -> Ok200(add_numbers(a, b))
      [] op = "subtract" -> Ok200(subtract_numbers(a, b))
      [] op = "multiply" -> Ok200(multiply_numbers(a, b))
      [] OTHER           ->
            LET q == divide_numbers(a, b)
            IN IF q.raised THEN InternalServerError ELSE Ok200(q.value[1])

\* routers/testing.py: test_endpoint
testing_handler(op, a, b) == Ok200(add_numbers(a, b))

\* the operation and body a handler reads: the handler, and with it the body,
\* is reached only when the dependency with outcome d raised nothing
ReadInputs(d, ops) ==
    IF d.status_code = 0
    THEN {[op |-> o, A |-> body.A, B |-> body.B] : o \in ops, body \in InputData}
    ELSE {NoInput}

-----------------------------------------------------------------------------
\* OAuth flow endpoints: auth/oauth_auth.py:34-75 and routers/oauth.py

\* settings.oauth_client_id / oauth_client_secret / oauth_tenant_id of the
\* deployment
oauth_client_id == "test_client_id"
oauth_client_secret == "test_client_secret"
oauth_tenant_id == "test_tenant_id"

\* provider names a request can carry
ProviderNames == {"google", "azure", "github", "Google", "invalid_provider"}
redirect_uri == "http://localhost/callback"

providers_config ==
    [google |-> [authorization_url |-> "https://accounts.google.com/o/oauth2/v2/auth",
                 token_url |-> "https://oauth2.googleapis.com/token",
                 userinfo_url |-> "https://www.googleapis.com/oauth2/v2/userinfo"],
     azure |-> [authorization_url |-> "https://login.microsoftonline.com/"
                                          \o oauth_tenant_id \o "/oauth2/v2.0/authorize",
                token_url |-> "https://login.microsoftonline.com/"
                                  \o oauth_tenant_id \o "/oauth2/v2.0/token",
                userinfo_url |-> "https://graph.microsoft.com/v1.0/me"],
     github |-> [authorization_url |-> "https://github.com/login/oauth/authorize",
                 token_url |-> "https://github.com/login/oauth/access_token",
                 userinfo_url |-> "https://api.github.com/user"]]

OAuthProvider(provider_name, config) ==
    [provider_name |-> provider_name, client_id |-> oauth_client_id,
     client_secret |-> oauth_client_secret,
     authorization_url |-> config.authorization_url,
     token_url |-> config.token_url, userinfo_url |-> config.userinfo_url]

\* create_oauth_provider, falling back to google for a name it does not know
create_oauth_provider_default(provider_type) ==
    IF provider_type \notin DOMAIN providers_config
    THEN [raised |-> FALSE, message |-> "",
          provider |-> Some(OAuthProvider("google", providers_config["google"]))]
    ELSE [raised |-> FALSE, message |-> "",
          provider |-> Some(OAuthProvider(provider_type, providers_config[provider_type]))]

\* create_oauth_provider(provider_type): ValueError for a name that is not a
\* key of providers_config (the lookup is case-sensitive)
create_oauth_provider(provider_type) ==
    IF provider_type \notin DOMAIN providers_config
    THEN [raised |-> TRUE, message |-> "Unsupported OAuth provider: " \o provider_type,
          provider |-> None]
    ELSE [raised |-> FALSE, message |-> "",
          provider |-> Some(OAuthProvider(provider_type, providers_config[provider_type]))]

scopes == [google |-> "openid email profile", azure |-> "openid email profile",
           github |-> "user:email"]

\* routers/oauth.py:32-68  the /auth/oauth/authorize handler
get_authorization_url(provider_name, redirect) ==
    LET made == create_oauth_provider(provider_name)
    IN IF made.raised
       THEN [status_code |-> 400, detail |-> made.message, authorization_url |-> None]
       ELSE LET provider == made.provider[1]
                scope == IF provider_name \in DOMAIN scopes THEN scopes[provider_name]
                         ELSE "email"
                auth_url == provider.authorization_url
                                \o "?client_id=" \o provider.client_id
                                \o "&redirect_uri=" \o redirect
                                \o "&response_type=code"
                                \o "&scope=" \o scope
            IN [status_code |-> 200, detail |-> "",
                authorization_url |->
                    Some(IF provider_name = "azure"
                         THEN auth_url \o "&tenant=" \o oauth_tenant_id
                         ELSE auth_url)]

\* What an outbound call comes back with.  error: the transport failed
\* (httpx.RequestError); body: the content as response.json() finds it: not
\* JSON, a JSON array, or a JSON object whose values are strings or null.
NotJson == [kind |-> "text", object |-> <<>>]
JsonArray == [kind |-> "array", object |-> <<>>]
JsonObject(d) == [kind |-> "object", object |-> d]
HttpReply(error, status_code, body) ==
    [error |-> error, status_code |-> status_code, body |-> body]

TokenBodies ==
    {NotJson, JsonArray, JsonObject(<<>>),
     JsonObject([error |-> Some("bad_verification_code")]),
     JsonObject([access_token |-> None]),
     JsonObject([access_token |-> Some("")]),
     JsonObject([access_token |-> Some("mock_provider_token")])}
UserinfoBodies ==
    {NotJson, JsonArray, JsonObject(<<>>),
     JsonObject([email |-> Some("test@example.com")]),
     JsonObject([mail |-> Some("test@example.com")]),
     JsonObject([email |-> None, mail |-> Some("test@example.com")]),
     JsonObject([email |-> None]),
     JsonObject([email |-> Some("")])}
FailedReplies ==
    {HttpReply(TRUE, 0, NotJson)}
        \cup {HttpReply(FALSE, c, JsonObject([error |-> Some("invalid_grant")])) : c \in {400, 500}}
TokenReplies == FailedReplies \cup {HttpReply(FALSE, 200, b) : b \in TokenBodies}
UserinfoReplies == FailedReplies \cup {HttpReply(FALSE, 200, b) : b \in UserinfoBodies}

\* response.raise_for_status() raises httpx.HTTPStatusError unless 2xx
is_success(status_code) == 200 <= status_code /\ status_code <= 299

\* dict.get(key) on a parsed JSON object: None when the key is absent or null
get(d, key) == IF key \in DOMAIN d THEN d[key] ELSE None

\* bool() of an optional str
truthy(v) == v # None /\ v[1] # ""

HttpCall(method, url, bearer) == [method |-> method, url |-> url, bearer |-> bearer]

\* one step of exchange_code_for_token: what is answered (status_code 0 =
\* nothing yet), the outbound call sent next, the token returned
Step(status_code, detail, call, access_token) ==
    [status_code |-> status_code, detail |-> detail, call |-> call,
     access_token |-> access_token]

\* routers/oauth.py:80-101  up to the await of client.post
exchange_code_for_token_begin(provider_name) ==
    LET made == create_oauth_provider(provider_name)
    IN IF made.raised THEN Step(400, made.message, None, None)
       ELSE Step(0, "", Some(HttpCall("POST", made.provider[1].token_url, None)), None)

\* the resumption after client.post, sending the userinfo call whether or not
\* the token response carries an access token
exchange_code_for_token_after_post_eager(provider_name, reply) ==
    LET provider == create_oauth_provider(provider_name).provider[1]
    IN IF reply.error \/ ~is_success(reply.status_code)
       THEN Step(400, "Failed to exchange authorization code", None, None)
       ELSE IF reply.body.kind # "object"
            THEN Step(500, "Internal Server Error", None, None)
       ELSE LET provider_access_token == get(reply.body.object, "access_token")
            IN Step(0, "", Some(HttpCall("GET", provider.userinfo_url,
                                         provider_access_token)), None)

\* routers/oauth.py:102-123  from the resumption after client.post to the await
\* of client.get.  Only httpx.HTTPError is caught around raise_for_status() and
\* json(): the JSONDecodeError of a body that is not JSON, and the
\* AttributeError of .get on a body that is not an object, leave the handler
\* and the framework answers 500.
exchange_code_for_token_after_post(provider_name, reply) ==
    LET provider == create_oauth_provider(provider_name).provider[1]
    IN IF reply.error \/ ~is_success(reply.status_code)
       THEN Step(400, "Failed to exchange authorization code", None, None)
       ELSE IF reply.body.kind = "text"
            THEN Step(500, "Internal Server Error", None, None)
       ELSE IF reply.body.kind # "object"
            THEN Step(500, "Internal Server Error", None, None)
       ELSE LET provider_access_token == get(reply.body.object, "access_token")
            IN IF ~truthy(provider_access_token)
               THEN Step(400, "No access token in response", None, None)
               ELSE Step(0, "", Some(HttpCall("GET", provider.userinfo_url,
                                              provider_access_token)), None)

\* routers/oauth.py:124-148  from the resumption after client.get to the end
exchange_code_for_token_after_get(provider_name, reply, t) ==
    IF reply.error \/ ~is_success(reply.status_code)
    THEN Step(400, "Failed to retrieve user information", None, None)
    ELSE IF reply.body.kind = "text"
         THEN Step(500, "Internal Server Error", None, None)
    ELSE IF reply.body.kind # "object"
         THEN Step(500, "Internal Server Error", None, None)
    ELSE LET user_info_ == reply.body.object
             email == get(user_info_, "email")
             user_email == IF truthy(email) THEN email ELSE get(user_info_, "mail")
         IN IF ~truthy(user_email)
            THEN Step(400, "Email not found in user info", None, None)
            ELSE LET made == create_access_token(
                                 [sub |-> user_email, provider |-> Some(provider_name),
                                  roles |-> None], None, t)
                 IN IF made.exc # ""
                    THEN Step(500, "Internal Server Error", None, None)
                    ELSE Step(200, "", None, made.token)

NoFlow == [provider |-> "", outbound |-> <<>>, authorization_url |-> None,
           access_token |-> None]

-----------------------------------------------------------------------------
\* Concurrently processed requests: main.py:50-60, the dependencies and the
\* handlers that read request.state

Slots == 1..MaxInflight
ConcRoutes == {"unified", "production"}
ConcAuthorizations ==
    {None} \cup {Some([scheme |-> "Bearer", param |-> c]) : c \in {AdminKey, UserKey, TokenKey}}
ConcConfigurations == {<<<<AdminKey, AdminEntry>>, <<UserKey, UserEntry>>>>,
                       <<<<TokenKey, AdminEntry>>, <<UserKey, UserEntry>>>>}

FreeSlot == [at |-> "free", route |-> "", authorization |-> None, seen |-> 0,
             user_info |-> None, response |-> NoException, served |-> None]

\* the State object a dependency or handler reaches through request.state,
\* were it one object shared by all requests
request_state_shared(slot) == 1

\* request.state of the request in the slot: every Request has a State object
\* of its own
request_state(slot) == slot

\* main.py:50, 60  the dependency of the router the route belongs to
Dependency(route, api_keys, authorization, t) ==
    IF route = "unified"
    THEN authenticate_request(api_keys, HTTPBearer(authorization), t)
    ELSE auth_admin(api_keys, HTTPBearer(authorization))

\* routers/unified.py:21-34, routers/production.py:20-22  what the handler
\* makes of request.state.user_info: the unified handlers return user and
\* auth_type, the production handlers log the user; without the attribute the
\* handler raises AttributeError
HandlerServes(route, info) ==
    IF info = None
    THEN [status_code |-> 500, detail |-> "Internal Server Error", served |-> None]
    ELSE [status_code |-> 200, detail |-> "",
          served |-> Some([user |-> info[1].sub,
                           auth_type |-> IF route = "unified" THEN info[1].auth_type
                                         ELSE ""])]

-----------------------------------------------------------------------------
\* State machine

Init ==
    /\ env_api_keys \in Configurations
    /\ settings = [status |-> "unset", api_keys |-> <<>>]
    /\ now = 0
    /\ pc = "boot"
    /\ request = NoRequest
    /\ user_info = None
    /\ response = NoException
    /\ handler_ran = FALSE
    /\ calls = <<>>
    /\ gate = None
    /\ input_data = NoInput
    /\ handler_result = None
    /\ issued = None
    /\ flow = NoFlow
    /\ inflight = [s \in Slots |-> FreeSlot]

\* settings.py: get_settings() -> Settings(); the first call happens at import
\* time and the result is cached.  A validation error ends the process.
get_settings ==
    /\ pc = "boot"
    /\ settings' = ensure_unique_values(env_api_keys)
    /\ pc' = IF settings'.status = "ok" THEN "idle" ELSE "crashed"
    /\ UNCHANGED <<env_api_keys, now, request, user_info, response, handler_ran,
                   calls, gate, input_data, handler_result, issued, flow, inflight>>

Tick ==
    /\ pc \in {"idle", "await_post", "await_get"}
    /\ now < MaxNow
    /\ now' = now + 1
    /\ UNCHANGED <<env_api_keys, settings, pc, request, user_info, response,
                   handler_ran, calls, gate, input_data, handler_result, issued, flow, inflight>>

\* The response of a router whose dependency produced outcome d and whose
\* handler would produce h: the handler is executed only when the dependency
\* raised nothing, and then its response is the answer.  The body is read by
\* the handler only.
RouterResponse(d, h) ==
    IF d.status_code = 0 THEN [status_code |-> h.status_code, detail |-> h.detail]
    ELSE [status_code |-> d.status_code, detail |-> d.detail]

\* main.py:50  unified_router, Depends(authenticate_request)
UnifiedRequest ==
    /\ pc = "idle"
    /\ \E a \in Authorizations :
        LET d == authenticate_request(settings.api_keys, HTTPBearer(a), now)
        IN \E inp \in ReadInputs(d, MathOps) :
        LET h == unified_handler(inp.op, inp.A, inp.B)
        IN /\ pc' = "done"
           /\ request' = [route |-> "unified", authorization |-> a]
           /\ user_info' = d.user_info
           /\ calls' = d.calls
           /\ handler_ran' = (d.status_code = 0)
           /\ input_data' = inp
           /\ response' = RouterResponse(d, h)
           /\ handler_result' = IF d.status_code = 0 THEN h.result ELSE None
           /\ UNCHANGED <<env_api_keys, settings, now, gate, issued, flow, inflight>>

\* main.py:54-56  oauth_protected_router, Depends(get_current_oauth_user)
OAuthProtectedRequest ==
    /\ pc = "idle"
    /\ \E a \in Authorizations :
        LET d == get_current_oauth_user(OAuth2AuthorizationCodeBearer(a), now)
        IN \E inp \in ReadInputs(d, MathOps) :
        LET h == oauth_protected_handler(inp.op, inp.A, inp.B)
        IN /\ pc' = "done"
           /\ request' = [route |-> "oauth_protected", authorization |-> a]
           /\ user_info' = d.user_info
           /\ calls' = d.calls
           /\ handler_ran' = (d.status_code = 0)
           /\ input_data' = inp
           /\ response' = RouterResponse(d, h)
           /\ handler_result' = IF d.status_code = 0 THEN h.result ELSE None
           /\ UNCHANGED <<env_api_keys, settings, now, gate, issued, flow, inflight>>

\* main.py:60  fastapi_router, Depends(auth_admin)
ProductionRequest ==
    /\ pc = "idle"
    /\ \E a \in Authorizations :
        LET d == auth_admin(settings.api_keys, HTTPBearer(a))
        IN \E inp \in ReadInputs(d, MathOps) :
        LET h == production_handler(inp.op, inp.A, inp.B)
        IN /\ pc' = "done"
           /\ request' = [route |-> "production", authorization |-> a]
           /\ user_info' = d.user_info
           /\ calls' = d.calls
           /\ handler_ran' = (d.status_code = 0)
           /\ input_data' = inp
           /\ response' = RouterResponse(d, h)
           /\ handler_result' = IF d.status_code = 0 THEN h.result ELSE None
           /\ UNCHANGED <<env_api_keys, settings, now, gate, issued, flow, inflight>>

\* main.py:64-65  fastapi_test_router, Depends(auth_user)
TestingRequest ==
    /\ pc = "idle"
    /\ \E a \in Authorizations :
        LET d == auth_user(settings.api_keys, HTTPBearer(a))
        IN \E inp \in ReadInputs(d, {"test"}) :
        LET h == testing_handler(inp.op, inp.A, inp.B)
        IN /\ pc' = "done"
           /\ request' = [route |-> "testing", authorization |-> a]
           /\ user_info' = d.user_info
           /\ calls' = d.calls
           /\ handler_ran' = (d.status_code = 0)
           /\ input_data' = inp
           /\ response' = RouterResponse(d, h)
           /\ handler_result' = IF d.status_code = 0 THEN h.result ELSE None
           /\ UNCHANGED <<env_api_keys, settings, now, gate, issued, flow, inflight>>

\* auth/api_key_auth.py:85  the auth_any dependency (mounted on no router: no
\* handler follows it)
AuthAnyCall ==
    /\ pc = "idle"
    /\ \E a \in Authorizations :
        LET d == auth_any(settings.api_keys, HTTPBearer(a))
        IN /\ pc' = "done"
           /\ request' = [route |-> "auth_any", authorization |-> a]
           /\ user_info' = d.user_info
           /\ calls' = d.calls
           /\ handler_ran' = FALSE
           /\ response' = [status_code |-> d.status_code, detail |-> d.detail]
           /\ UNCHANGED <<env_api_keys, settings, now, gate, input_data, handler_result, issued, flow, inflight>>

\* auth/unified_auth.py:88-108  check_role applied to a request of the unified
\* router after its resolver
CheckRole ==
    \E required_roles \in RequiredRoleSets :
        /\ pc = "done"
        /\ request.route = "unified"
        /\ gate = None
        /\ gate' = Some([required_roles |-> required_roles,
                         result |-> check_role(user_info, required_roles)])
        /\ UNCHANGED <<env_api_keys, settings, now, pc, request, user_info, response,
                       handler_ran, calls, input_data, handler_result, issued, flow, inflight>>

\* auth/oauth_auth.py:85-97  a call of create_access_token
CreateAccessToken ==
    \E data \in TokenData, expires_delta \in Deltas :
        /\ pc = "idle"
        /\ pc' = "done"
        /\ request' = [route |-> "issue", authorization |-> None]
        /\ issued' = Some([data |-> data, expires_delta |-> expires_delta,
                           result |-> create_access_token(data, expires_delta, now)])
        /\ UNCHANGED <<env_api_keys, settings, now, user_info, response, handler_ran,
                       calls, gate, input_data, handler_result, flow, inflight>>

\* routers/oauth.py:32-68  POST /auth/oauth/authorize (no dependency)
GetAuthorizationUrl ==
    /\ pc = "idle"
    /\ \E provider_name \in ProviderNames :
        LET r == get_authorization_url(provider_name, redirect_uri)
        IN /\ pc' = "done"
           /\ request' = [route |-> "authorize", authorization |-> None]
           /\ handler_ran' = TRUE
           /\ response' = [status_code |-> r.status_code, detail |-> r.detail]
           /\ flow' = [NoFlow EXCEPT !.provider = provider_name,
                                     !.authorization_url = r.authorization_url]
           /\ UNCHANGED <<env_api_keys, settings, now, user_info, calls, gate,
                          input_data, handler_result, issued, inflight>>

\* routers/oauth.py:71-101  POST /auth/oauth/token (no dependency), up to the
\* await of the token call
ExchangeCodeForToken ==
    /\ pc = "idle"
    /\ \E provider_name \in ProviderNames :
        LET st == exchange_code_for_token_begin(provider_name)
        IN /\ pc' = IF st.status_code = 0 THEN "await_post" ELSE "done"
           /\ request' = [route |-> "token", authorization |-> None]
           /\ handler_ran' = TRUE
           /\ response' = [status_code |-> st.status_code, detail |-> st.detail]
           /\ flow' = [NoFlow EXCEPT
                          !.provider = provider_name,
                          !.outbound = IF st.call = None THEN <<>>
                                       ELSE <<[call |-> st.call[1], reply |-> None]>>]
           /\ UNCHANGED <<env_api_keys, settings, now, user_info, calls, gate,
                          input_data, handler_result, issued, inflight>>

\* routers/oauth.py:102-123  the token call returns
TokenEndpointReplies ==
    /\ pc = "await_post"
    /\ \E reply \in TokenReplies :
        LET st == exchange_code_for_token_after_post(flow.provider, reply)
            answered == [flow.outbound EXCEPT ![Len(flow.outbound)].reply = Some(reply)]
        IN /\ pc' = IF st.status_code = 0 THEN "await_get" ELSE "done"
           /\ response' = [status_code |-> st.status_code, detail |-> st.detail]
           /\ flow' = [flow EXCEPT
                          !.outbound = IF st.call = None THEN answered
                                       ELSE Append(answered, [call |-> st.call[1],
                                                              reply |-> None])]
           /\ UNCHANGED <<env_api_keys, settings, now, request, user_info, handler_ran,
                          calls, gate, input_data, handler_result, issued, inflight>>

\* routers/oauth.py:124-148  the userinfo call returns
UserinfoEndpointReplies ==
    /\ pc = "await_get"
    /\ \E reply \in UserinfoReplies :
        LET st == exchange_code_for_token_after_get(flow.provider, reply, now)
        IN /\ pc' = "done"
           /\ response' = [status_code |-> st.status_code, detail |-> st.detail]
           /\ flow' = [flow EXCEPT
                          !.outbound[Len(flow.outbound)].reply = Some(reply),
                          !.access_token = st.access_token]
           /\ UNCHANGED <<env_api_keys, settings, now, request, user_info, handler_ran,
                          calls, gate, input_data, handler_result, issued, inflight>>

\* The request ends; its state is discarded.
EndRequest ==
    /\ pc = "done"
    /\ pc' = "idle"
    /\ request' = NoRequest
    /\ user_info' = None
    /\ response' = NoException
    /\ handler_ran' = FALSE
    /\ calls' = <<>>
    /\ gate' = None
    /\ input_data' = NoInput
    /\ handler_result' = None
    /\ issued' = None
    /\ flow' = NoFlow
    /\ UNCHANGED <<env_api_keys, settings, now, inflight>>

Next ==
    \/ get_settings
    \/ Tick
    \/ UnifiedRequest
    \/ OAuthProtectedRequest
    \/ ProductionRequest
    \/ TestingRequest
    \/ AuthAnyCall
    \/ CheckRole
    \/ CreateAccessToken
    \/ GetAuthorizationUrl
    \/ ExchangeCodeForToken
    \/ TokenEndpointReplies
    \/ UserinfoEndpointReplies
    \/ EndRequest

Spec == Init /\ [][Next]_vars

-----------------------------------------------------------------------------
\* Concurrent processing: requests are in flight together; the dependency of a
\* request runs on the event loop, its handler later in the thread pool, and
\* other requests take steps in between.

InitConc ==
    /\ Init
    /\ env_api_keys \in ConcConfigurations

RequestArrives ==
    \E s \in Slots, route \in ConcRoutes, a \in ConcAuthorizations :
        /\ pc = "idle"
        /\ inflight[s].at = "free"
        /\ inflight' = [inflight EXCEPT ![s] = [FreeSlot EXCEPT !.at = "arrived",
                                                                !.route = route,
                                                                !.authorization = a]]
        /\ UNCHANGED <<env_api_keys, settings, now, pc, request, user_info, response,
                       handler_ran, calls, gate, input_data, handler_result, issued, flow>>

\* the dependency runs: it reads the store and the clock and, when it accepts,
\* sets request.state.user_info; when it raises, the error response is sent
DependencyResolves ==
    \E s \in Slots :
        /\ inflight[s].at = "arrived"
        /\ LET d == Dependency(inflight[s].route, settings.api_keys,
                               inflight[s].authorization, now)
               own == [inflight EXCEPT
                          ![s].at = IF d.status_code = 0 THEN "resolved" ELSE "answered",
                          ![s].seen = now,
                          ![s].response = [status_code |-> d.status_code,
                                           detail |-> d.detail]]
           IN inflight' = IF d.status_code = 0
                          THEN [own EXCEPT ![request_state(s)].user_info = d.user_info]
                          ELSE own
        /\ UNCHANGED <<env_api_keys, settings, now, pc, request, user_info, response,
                       handler_ran, calls, gate, input_data, handler_result, issued, flow>>

\* the handler runs and reads request.state.user_info
HandlerRuns ==
    \E s \in Slots :
        /\ inflight[s].at = "resolved"
        /\ LET h == HandlerServes(inflight[s].route, inflight[request_state(s)].user_info)
           IN inflight' = [inflight EXCEPT
                              ![s].at = "answered",
                              ![s].response = [status_code |-> h.status_code,
                                               detail |-> h.detail],
                              ![s].served = h.served]
        /\ UNCHANGED <<env_api_keys, settings, now, pc, request, user_info, response,
                       handler_ran, calls, gate, input_data, handler_result, issued, flow>>

\* the response is out; the request and its state are gone
ResponseSent ==
    \E s \in Slots :
        /\ inflight[s].at = "answered"
        /\ inflight' = [inflight EXCEPT ![s] = FreeSlot]
        /\ UNCHANGED <<env_api_keys, settings, now, pc, request, user_info, response,
                       handler_ran, calls, gate, input_data, handler_result, issued, flow>>

NextConc ==
    \/ get_settings
    \/ Tick
    \/ RequestArrives
    \/ DependencyResolves
    \/ HandlerRuns
    \/ ResponseSent

SpecConc == InitConc /\ [][NextConc]_vars

-----------------------------------------------------------------------------
\* Vocabulary of the properties

Routes == {"unified", "oauth_protected", "production", "testing"}

\* the request being served presented a bearer credential
PresentedBearer ==
    /\ request.authorization # None
    /\ lower(request.authorization[1].scheme) = "bearer"
    /\ request.authorization[1].param # Text("")

Presented == request.authorization[1].param

SignedByProcess(c) == c.jws /\ c.key = oauth_secret_key
HasExpiry(c) == c.jws /\ c.payload.exp # None
Unexpired(c) == c.jws /\ (c.payload.exp = None \/ now < c.payload.exp[1] * TicksPerSec)
HasSubject(c) == c.jws /\ c.payload.sub # None /\ c.payload.sub[1] # ""

\* the token check of the unified resolver succeeds on c and yields a subject
TokenAccepted(c) == SignedByProcess(c) /\ Unexpired(c) /\ HasSubject(c)

Served(route) == pc = "done" /\ request.route = route

-----------------------------------------------------------------------------
\* C1: on the unified router token verification is the first operation performed
\* on a presented bearer credential; when it succeeds and yields a subject the
\* identity is an oauth identity, the request is accepted and the API-key table
\* is never consulted, also when the credential is a key of that table.
C1_TokenFirstAndFinal ==
    (Served("unified") /\ PresentedBearer) =>
        /\ Len(calls) >= 1
        /\ calls[1].op = "verify" /\ calls[1].arg = Presented
        /\ TokenAccepted(Presented) =>
              /\ user_info # None
              /\ user_info[1].auth_type = "oauth"
              /\ user_info[1].sub = Presented.payload.sub[1]
              /\ handler_ran
              /\ \A i \in DOMAIN calls : calls[i].op # "lookup"

C1_Witness ==
    /\ Served("unified") /\ PresentedBearer
    /\ Presented = TokenKey
    /\ TokenKey \in DOMAIN settings.api_keys
    /\ TokenAccepted(TokenKey)
    /\ user_info # None /\ user_info[1].auth_type = "oauth"
    /\ calls = <<Call("verify", TokenKey, "")>>

\* C2: on the unified router, when the token check fails (bad signature,
\* expired, not a token, or no subject) the same credential string is looked up
\* in the credential store, and when it is a key there the request is accepted
\* with an api_key identity carrying the stored entry's username and roles.
C2_FallbackToStore ==
    (Served("unified") /\ PresentedBearer /\ ~TokenAccepted(Presented)) =>
        /\ Len(calls) = 2
        /\ calls[1].op = "verify"
        /\ calls[2].op = "lookup" /\ calls[2].arg = Presented
        /\ Presented \in DOMAIN settings.api_keys =>
              /\ user_info = Some([sub |-> settings.api_keys[Presented].username,
                                   auth_type |-> "api_key",
                                   roles |-> settings.api_keys[Presented].roles])
              /\ handler_ran

\* an expired, correctly signed token that is a key of the store
C2_Witness ==
    /\ Served("unified") /\ PresentedBearer
    /\ Presented = TokenKey
    /\ SignedByProcess(TokenKey) /\ ~Unexpired(TokenKey)
    /\ TokenKey \in DOMAIN settings.api_keys
    /\ user_info # None /\ user_info[1].auth_type = "api_key"
    /\ user_info[1].roles = <<"user", "admin">>

\* C3: every presented bearer credential the unified router rejects gets the
\* same response, 401 "Invalid authentication credentials", whatever made the
\* token check fail; no identity is attached and the handler does not run.
C3_GenericRejection ==
    (Served("unified") /\ PresentedBearer /\ user_info = None) =>
        /\ response = HTTPException(401, "Invalid authentication credentials")
        /\ ~handler_ran

\* a correctly signed, expired token is rejected with the generic response
C3_Witness ==
    /\ Served("unified") /\ PresentedBearer
    /\ SignedByProcess(Presented) /\ HasExpiry(Presented) /\ ~Unexpired(Presented)
    /\ HasSubject(Presented)
    /\ calls[1].result = "Token has expired"
    /\ response = HTTPException(401, "Invalid authentication credentials")

-----------------------------------------------------------------------------
\* the role set demanded by the dependency of an API-key route
RequiredOf(route) ==
    CASE route = "production" -> AdminRoles
      [] route = "testing"    -> UserRoles
      [] OTHER                -> None

\* required_roles is empty/absent, or shares a role with roles
GateAllows(roles, required_roles) ==
    \/ required_roles = None
    \/ required_roles[1] = <<>>
    \/ Range(roles) \cap Range(required_roles[1]) # {}

\* C4: for a credential that is a key of the store, the API-key dependency
\* admits the request iff the required role set is empty/absent or shares a
\* role with the entry's roles, and answers 403 otherwise; check_role decides
\* the same way for an api_key identity.  On the admin routes [user, admin] is
\* admitted and [user] gets 403; on the test route [user] is admitted.
C4_ApiKeyRoleGate ==
    /\ (/\ pc = "done" /\ request.route \in {"production", "testing", "auth_any"}
        /\ PresentedBearer /\ Presented \in DOMAIN settings.api_keys) =>
           LET roles == settings.api_keys[Presented].roles
           IN /\ GateAllows(roles, RequiredOf(request.route)) =>
                    /\ response.status_code \notin {401, 403}
                    /\ handler_ran = (request.route # "auth_any")
                    /\ user_info # None /\ user_info[1].roles = roles
              /\ ~GateAllows(roles, RequiredOf(request.route)) =>
                    /\ response.status_code = 403
                    /\ ~handler_ran
              /\ (request.route = "production" /\ roles = <<"user", "admin">>) =>
                    handler_ran
              /\ (request.route = "production" /\ roles = <<"user">>) =>
                    response.status_code = 403
              /\ (request.route = "testing" /\ roles = <<"user">>) =>
                    (handler_ran /\ response.status_code = 200)
    /\ (gate # None /\ user_info # None /\ user_info[1].auth_type = "api_key") =>
           IF GateAllows(user_info[1].roles, gate[1].required_roles)
           THEN gate[1].result = NoException
           ELSE gate[1].result.status_code = 403

\* a user-only key is refused on an admin route
C4_Witness ==
    /\ Served("production") /\ PresentedBearer
    /\ Presented \in DOMAIN settings.api_keys
    /\ settings.api_keys[Presented].roles = <<"user">>
    /\ response.status_code = 403

\* C5: check_role admits every oauth identity, whatever role set is required;
\* an oauth identity carries no roles.
C5_OAuthBypassesRoleGate ==
    (gate # None /\ user_info # None /\ user_info[1].auth_type = "oauth") =>
        gate[1].result = NoException

\* an oauth identity passes the gate that demands admin
C5_Witness ==
    /\ gate # None /\ user_info # None
    /\ user_info[1].auth_type = "oauth"
    /\ "roles" \notin DOMAIN user_info[1]
    /\ gate[1].required_roles = AdminRoles
    /\ gate[1].result = NoException

\* C6: on every protected router a request without Authorization header, or
\* with a scheme other than bearer, is answered 401 and its handler is not run.
C6_MissingCredentialRejected ==
    (/\ pc = "done" /\ request.route \in Routes
     /\ (request.authorization = None \/ lower(request.authorization[1].scheme) # "bearer")) =>
        /\ response.status_code = 401
        /\ ~handler_ran
        /\ user_info = None

\* a Basic header carrying an otherwise acceptable token on the OAuth-only router
C6_Witness ==
    /\ Served("oauth_protected")
    /\ request.authorization # None
    /\ request.authorization[1].scheme = "Basic"
    /\ TokenAccepted(request.authorization[1].param)
    /\ response.status_code = 401
    /\ ~handler_ran

-----------------------------------------------------------------------------
\* C7: every token issued by create_access_token with a lifetime <= 0 (zero
\* included) is rejected by verify_access_token as expired.
C7_NonPositiveTtlExpired ==
    (/\ issued # None
     /\ issued[1].expires_delta # None
     /\ issued[1].expires_delta[1] <= 0) =>
        /\ issued[1].result.exc = ""
        /\ issued[1].result.token # None
        /\ verify_access_token(issued[1].result.token[1], now).detail = "Token has expired"

\* C8: whenever verify_access_token accepts a token, the token is signed with
\* the process secret, carries an expiry that the clock has not reached and
\* carries a subject; a correctly signed token without expiry or without subject
\* is rejected as invalid.
C8_AcceptedTokensAreComplete ==
    \A i \in DOMAIN calls :
        calls[i].op = "verify" =>
            LET c == calls[i].arg
            IN /\ calls[i].result = "" =>
                     /\ SignedByProcess(c)
                     /\ HasExpiry(c)
                     /\ now < c.payload.exp[1] * TicksPerSec
                     /\ c.payload.sub # None
               /\ (SignedByProcess(c) /\ (c.payload.exp = None \/ c.payload.sub = None)) =>
                     calls[i].result = "Invalid token"

\* C9: no Settings object is built from a configuration in which an API key
\* occurs twice.
C9_DuplicateKeysFatal ==
    settings.status = "ok" =>
        \A i, j \in DOMAIN env_api_keys :
            i # j => env_api_keys[i][1] # env_api_keys[j][1]

\* C10: the identity attached to a request always has a non-empty sub.
C10_SubjectNeverEmpty ==
    user_info # None => user_info[1].sub # ""

-----------------------------------------------------------------------------
\* info.get("roles", [])
IdentityRoles(info) == IF "roles" \in DOMAIN info THEN info.roles ELSE <<>>

\* the identity of the request was produced from a verified token
IdentityFromToken ==
    /\ pc = "done" /\ request.route \in {"unified", "oauth_protected"}
    /\ user_info # None
    /\ Len(calls) = 1 /\ calls[1].op = "verify" /\ calls[1].result = ""

\* C11 (as stated): an identity produced from a verified token has auth kind
\* oauth, the token's provider claim (or "unknown") and roles equal to the
\* token's roles claim when present, empty otherwise.
C11_RolesFromClaims ==
    IdentityFromToken =>
        LET c == calls[1].arg
        IN /\ user_info[1].auth_type = "oauth"
           /\ user_info[1].provider = (IF c.payload.provider = None THEN "unknown"
                                       ELSE c.payload.provider[1])
           /\ IdentityRoles(user_info[1]) = (IF c.payload.roles = None THEN <<>>
                                             ELSE c.payload.roles[1])

\* C11 (amended): an identity produced from a verified token has auth kind
\* oauth, the token's subject, the token's provider claim (or "unknown"), and no
\* roles at all: the token's roles claim is not copied.
C11_OAuthIdentityShape ==
    IdentityFromToken =>
        LET c == calls[1].arg
        IN /\ user_info[1].auth_type = "oauth"
           /\ user_info[1].sub = c.payload.sub[1]
           /\ user_info[1].provider = (IF c.payload.provider = None THEN "unknown"
                                       ELSE c.payload.provider[1])
           /\ DOMAIN user_info[1] = {"sub", "auth_type", "provider"}

\* a verified token with a roles claim and no provider claim
C11_Witness ==
    /\ IdentityFromToken
    /\ request.route = "oauth_protected"
    /\ calls[1].arg.payload.roles = Some(<<"admin">>)
    /\ calls[1].arg.payload.provider = None
    /\ user_info[1].provider = "unknown"
    /\ IdentityRoles(user_info[1]) = <<>>

\* C12: a token issued by create_access_token with a positive lifetime verifies
\* immediately and returns the subject and provider it was issued for.
C12_IssueVerifyRoundTrip ==
    (/\ issued # None
     /\ issued[1].expires_delta # None
     /\ issued[1].expires_delta[1] > 0) =>
        /\ issued[1].result.exc = ""
        /\ issued[1].result.token # None
        /\ LET v == verify_access_token(issued[1].result.token[1], now)
           IN /\ v.status_code = 0
              /\ v.payload[1].sub = issued[1].data.sub
              /\ v.payload[1].provider = issued[1].data.provider

\* C13: verify_access_token never accepts a string whose signature does not
\* verify under the process secret (plain text, a token signed with another
\* secret, a token altered after signing): each is rejected with 401
\* "Invalid token", and the OAuth-only router answers exactly that.
C13_ForgedNeverAccepted ==
    /\ \A i \in DOMAIN calls :
           (calls[i].op = "verify" /\ ~SignedByProcess(calls[i].arg)) =>
               calls[i].result = "Invalid token"
    /\ (Served("oauth_protected") /\ PresentedBearer /\ ~SignedByProcess(Presented)) =>
           /\ response = HTTPException(401, "Invalid token")
           /\ user_info = None
           /\ ~handler_ran

\* an unexpired token with a subject, signed with another secret
C13_Witness ==
    /\ Served("oauth_protected") /\ PresentedBearer
    /\ Presented.jws /\ Presented.key = OtherSecret
    /\ Unexpired(Presented) /\ HasSubject(Presented)
    /\ response = HTTPException(401, "Invalid token")

\* a token altered after signing
C13_WitnessAltered ==
    /\ Served("unified") /\ PresentedBearer
    /\ Presented.jws /\ Presented.key = NoKey
    /\ calls[1].result = "Invalid token"

-----------------------------------------------------------------------------
\* K is the name of a member of the configured API_KEYS object
Configured(K) == \E i \in DOMAIN env_api_keys : env_api_keys[i][1] = K

\* C14: on the API-key routes the presented string is looked up in the store;
\* a configured key is found and the identity attached is the username and
\* roles configured for that key; a string that is not a configured key is
\* absent and the request is rejected with 401.
C14_LookupMatchesStore ==
    (/\ pc = "done" /\ request.route \in {"production", "testing", "auth_any"}
     /\ PresentedBearer) =>
        /\ calls = <<Call("lookup", Presented,
                          IF Configured(Presented) THEN "found" ELSE "absent")>>
        /\ ~Configured(Presented) =>
              /\ response = HTTPException(401, "Invalid API Key")
              /\ user_info = None
              /\ ~handler_ran
        /\ Configured(Presented) =>
              /\ response.status_code # 401
              /\ request.route = "auth_any" => user_info # None
              /\ user_info # None =>
                    \E i \in DOMAIN env_api_keys :
                        /\ env_api_keys[i][1] = Presented
                        /\ user_info[1] = [sub |-> env_api_keys[i][2].username,
                                           auth_type |-> "api_key",
                                           roles |-> env_api_keys[i][2].roles]

\* a configured user key is found on the test route
C14_Witness ==
    /\ Served("testing") /\ PresentedBearer
    /\ Presented = UserKey
    /\ env_api_keys = <<(<<UserKey, UserEntry>>)>>
    /\ user_info = Some([sub |-> "user1", auth_type |-> "api_key", roles |-> <<"user">>])
    /\ handler_ran

\* C16: a correctly signed, expired token presented to the OAuth-only router is
\* rejected with 401 "Token has expired" and the handler does not run.
C16_ExpiredTokenRejected ==
    (/\ Served("oauth_protected") /\ PresentedBearer
     /\ SignedByProcess(Presented) /\ HasExpiry(Presented) /\ ~Unexpired(Presented)) =>
        /\ response = HTTPException(401, "Token has expired")
        /\ user_info = None
        /\ ~handler_ran

C16_Witness ==
    /\ Served("oauth_protected") /\ PresentedBearer
    /\ SignedByProcess(Presented) /\ HasSubject(Presented)
    /\ HasExpiry(Presented) /\ ~Unexpired(Presented)
    /\ response.status_code = 401
    /\ response.detail = "Token has expired"

-----------------------------------------------------------------------------
\* C15: on every divide endpoint (admin-gated, OAuth-only, unified) an
\* authenticated request with B = 0 is answered 500 with a detail that mentions
\* the division by zero, and carries no result.
C15_DivideByZero500 ==
    (/\ pc = "done" /\ request.route \in {"production", "oauth_protected", "unified"}
     /\ handler_ran /\ input_data.op = "divide" /\ input_data.B = 0) =>
        /\ response.status_code = 500
        /\ response.detail = "Cannot divide by zero"
        /\ handler_result = None

-----------------------------------------------------------------------------
\* Vocabulary of the OAuth flow properties

KnownProviders == {"google", "azure", "github"}
OnRoute(route) == pc \notin {"boot", "idle"} /\ request.route = route
Replied(e) == e.reply # None
HttpSucceeded(e) == Replied(e) /\ ~e.reply[1].error /\ is_success(e.reply[1].status_code)
\* the token call succeeded and returned an access token
ReturnedAccessToken(e) ==
    /\ HttpSucceeded(e)
    /\ e.reply[1].body.kind = "object"
    /\ truthy(get(e.reply[1].body.object, "access_token"))
CallsOf(method) == {i \in DOMAIN flow.outbound : flow.outbound[i].call.method = method}

\* C19: for a provider name outside {google, azure, github}, the authorize-URL
\* endpoint and the token-exchange endpoint both answer 400 with an
\* unsupported-provider detail, and the token-exchange endpoint has made no
\* outbound call.
C19_UnsupportedProvider ==
    ((OnRoute("authorize") \/ OnRoute("token")) /\ flow.provider \notin KnownProviders) =>
        /\ pc = "done"
        /\ response.status_code = 400
        /\ response.detail = "Unsupported OAuth provider: " \o flow.provider
        /\ flow.outbound = <<>>
        /\ flow.authorization_url = None
        /\ flow.access_token = None

C19_Witness ==
    /\ OnRoute("token")
    /\ flow.provider = "Google"
    /\ response.status_code = 400
    /\ flow.outbound = <<>>

C19_WitnessAuthorize ==
    /\ OnRoute("authorize")
    /\ flow.provider = "invalid_provider"
    /\ response.status_code = 400

\* C17: within one token-exchange request there is at most one POST (to the
\* provider's token endpoint) and at most one GET (to its userinfo endpoint);
\* only the last call can be in flight; the GET follows a POST that succeeded
\* and returned an access token; a call that failed is the last one and the
\* flow has ended with it; once a response is sent no call is in flight.
C17_SequentialNoRetry ==
    OnRoute("token") =>
        LET out == flow.outbound
        IN /\ Cardinality(CallsOf("POST")) <= 1
           /\ Cardinality(CallsOf("GET")) <= 1
           /\ \A i \in DOMAIN out :
                /\ out[i].call.method \in {"POST", "GET"}
                /\ out[i].call.method = "POST" =>
                       /\ i = 1
                       /\ out[i].call.url = providers_config[flow.provider].token_url
                /\ out[i].call.method = "GET" =>
                       /\ i = 2
                       /\ out[i].call.url = providers_config[flow.provider].userinfo_url
                       /\ out[1].call.method = "POST"
                       /\ ReturnedAccessToken(out[1])
                       /\ out[i].call.bearer = get(out[1].reply[1].body.object, "access_token")
                /\ ~Replied(out[i]) =>
                       /\ i = Len(out)
                       /\ pc = (IF i = 1 THEN "await_post" ELSE "await_get")
                       /\ response.status_code = 0
                /\ (Replied(out[i]) /\ ~ReturnedAccessToken(out[i]) /\ i = 1) =>
                       (Len(out) = 1 /\ pc = "done")
                /\ (Replied(out[i]) /\ i = 2) => pc = "done"
           /\ response.status_code # 0 => (pc = "done" /\ \A i \in DOMAIN out : Replied(out[i]))

C17_Witness ==
    /\ OnRoute("token")
    /\ pc = "done"
    /\ Len(flow.outbound) = 2
    /\ ReturnedAccessToken(flow.outbound[1])
    /\ Replied(flow.outbound[2])
    /\ ~HttpSucceeded(flow.outbound[2])
    /\ response.status_code = 400

C17_WitnessFirstFailure ==
    /\ OnRoute("token")
    /\ pc = "done"
    /\ Len(flow.outbound) = 1
    /\ ~HttpSucceeded(flow.outbound[1])

\* The failures of an exchange that the flow is specified to answer
TokenCallFailed == Len(flow.outbound) >= 1 /\ Replied(flow.outbound[1])
                       /\ ~HttpSucceeded(flow.outbound[1])
TokenResponseLacksAccessToken ==
    /\ Len(flow.outbound) >= 1
    /\ HttpSucceeded(flow.outbound[1])
    /\ \/ flow.outbound[1].reply[1].body.kind # "object"
       \/ "access_token" \notin DOMAIN flow.outbound[1].reply[1].body.object
UserinfoCallFailed == Len(flow.outbound) = 2 /\ Replied(flow.outbound[2])
                          /\ ~HttpSucceeded(flow.outbound[2])
ProfileWithoutEmail ==
    /\ Len(flow.outbound) = 2
    /\ HttpSucceeded(flow.outbound[2])
    /\ flow.outbound[2].reply[1].body.kind = "object"
    /\ get(flow.outbound[2].reply[1].body.object, "email") = None
    /\ get(flow.outbound[2].reply[1].body.object, "mail") = None

\* C18: a code exchange in which the token call did not succeed, or the token
\* response (of any shape) lacks an access token field, or the userinfo call
\* failed, or the profile has neither an email nor a mail value, is answered
\* with 400.
C18_FailedExchangeIs400 ==
    (/\ OnRoute("token")
     /\ pc = "done"
     /\ \/ TokenCallFailed
        \/ TokenResponseLacksAccessToken
        \/ UserinfoCallFailed
        \/ ProfileWithoutEmail) =>
        response.status_code = 400

-----------------------------------------------------------------------------
\* Vocabulary of the concurrency property

Started == pc # "boot"
\* what the request in slot s is owed, from its own credential, the store and
\* the clock value it read
Owed(s) == Dependency(inflight[s].route, ensure_unique_values(env_api_keys).api_keys,
                      inflight[s].authorization, inflight[s].seen)
Isolated(s) ==
    /\ inflight[s].at \in {"free", "arrived"} =>
           (inflight[s].user_info = None /\ inflight[s].response = NoException)
    /\ inflight[s].at = "resolved" =>
           /\ Owed(s).status_code = 0
           /\ inflight[s].user_info = Owed(s).user_info
           /\ inflight[s].response = NoException
    /\ inflight[s].at = "answered" =>
           IF Owed(s).status_code = 0
           THEN /\ inflight[s].user_info = Owed(s).user_info
                /\ inflight[s].response.status_code = 200
                /\ inflight[s].served =
                       HandlerServes(inflight[s].route, Owed(s).user_info).served
           ELSE /\ inflight[s].user_info = None
                /\ inflight[s].served = None
                /\ inflight[s].response = [status_code |-> Owed(s).status_code,
                                           detail |-> Owed(s).detail]
ReadOnlyAfterStartup ==
    Started => (settings' = settings /\ env_api_keys' = env_api_keys)

\* C20: under any interleaving of the requests in flight, the credential store
\* is not modified after startup (the signing secret is a constant of the
\* process), and the authentication outcome, the attached identity and the
\* identity the handler sees of each request are those determined by its own
\* credential, the store and the clock value it read.
C20_RequestsIsolated ==
    /\ [](\A s \in Slots : Isolated(s))
    /\ [][ReadOnlyAfterStartup]_vars

C20_Witness ==
    /\ inflight[1].at = "answered"
    /\ inflight[1].served # None
    /\ inflight[1].served[1].auth_type = "oauth"
    /\ inflight[2].at = "resolved"
    /\ inflight[2].authorization = inflight[1].authorization
    /\ inflight[2].user_info # None
    /\ inflight[2].user_info[1].auth_type = "api_key"

-----------------------------------------------------------------------------
\* Vocabulary of the per-request state machine

\* the outcome of the resolver main.py mounts on the route, for the request
\* being served
ResolverOutcome ==
    CASE request.route = "unified" ->
             authenticate_request(settings.api_keys, HTTPBearer(request.authorization), now)
      [] request.route = "oauth_protected" ->
             get_current_oauth_user(OAuth2AuthorizationCodeBearer(request.authorization), now)
      [] request.route = "production" ->
             auth_admin(settings.api_keys, HTTPBearer(request.authorization))
      [] request.route = "testing" ->
             auth_user(settings.api_keys, HTTPBearer(request.authorization))
Authenticated == user_info # None
Rejected == response.status_code \in {401, 403}

\* C21: a served request to a protected route is either Authenticated or
\* Rejected, never both and never neither; the handler ran iff the request is
\* Authenticated, and then the attached identity is the one the route's
\* resolver produced and has a sub and an auth_type; a Rejected request has no
\* identity attached and its handler did not run.
C21_AuthenticatedOrRejected ==
    (pc = "done" /\ request.route \in Routes) =>
        /\ Authenticated # Rejected
        /\ handler_ran = Authenticated
        /\ Authenticated =>
               /\ ResolverOutcome.status_code = 0
               /\ user_info = ResolverOutcome.user_info
               /\ {"sub", "auth_type"} \subseteq DOMAIN user_info[1]
               /\ user_info[1].auth_type \in {"oauth", "api_key"}
        /\ Rejected =>
               /\ user_info = None
               /\ ~handler_ran
               /\ response.status_code = ResolverOutcome.status_code
               /\ response.detail = ResolverOutcome.detail

\* a configured key without the admin role on an admin route: found in the
\* store, refused by the role check, nothing attached
C21_Witness ==
    /\ Served("production")
    /\ PresentedBearer /\ Presented \in DOMAIN settings.api_keys
    /\ response.status_code = 403
    /\ user_info = None
    /\ ~handler_ran

C21_WitnessAuthenticated ==
    /\ Served("production")
    /\ handler_ran
    /\ user_info # None
    /\ response.status_code = 500

-----------------------------------------------------------------------------
\* C22: on the OAuth-only router a configured API key that is not a correctly
\* signed, unexpired token is answered 401; on the API-key-only routers a
\* correctly signed, unexpired token with a subject that is not a configured
\* key is answered 401; in both cases the handler does not run.  The unified
\* router runs the handler for either kind of credential.
C22_SchemesSeparated ==
    /\ (/\ Served("oauth_protected") /\ PresentedBearer
        /\ Presented \in DOMAIN settings.api_keys
        /\ ~(SignedByProcess(Presented) /\ Unexpired(Presented))) =>
           /\ response.status_code = 401
           /\ ~handler_ran
           /\ user_info = None
    /\ (/\ pc = "done" /\ request.route \in {"production", "testing"} /\ PresentedBearer
        /\ TokenAccepted(Presented)
        /\ Presented \notin DOMAIN settings.api_keys) =>
           /\ response.status_code = 401
           /\ ~handler_ran
           /\ user_info = None
    /\ (/\ Served("unified") /\ PresentedBearer
        /\ (TokenAccepted(Presented) \/ Presented \in DOMAIN settings.api_keys)) =>
           /\ handler_ran
           /\ user_info # None
           /\ user_info[1].auth_type = (IF TokenAccepted(Presented) THEN "oauth"
                                        ELSE "api_key")

\* the admin key, configured with the admin role, on the OAuth-only router
C22_Witness ==
    /\ Served("oauth_protected") /\ PresentedBearer
    /\ Presented = AdminKey
    /\ Presented \in DOMAIN settings.api_keys
    /\ settings.api_keys[Presented] = AdminEntry
    /\ response.status_code = 401
    /\ ~handler_ran

\* an acceptable token, not configured as a key, on the admin router
C22_WitnessToken ==
    /\ Served("production") /\ PresentedBearer
    /\ TokenAccepted(Presented)
    /\ Presented \notin DOMAIN settings.api_keys
    /\ response.status_code = 401

-----------------------------------------------------------------------------
\* the credential of the served request is a key of the credential store
InStore == PresentedBearer /\ Presented \in DOMAIN settings.api_keys

\* C23: on the API-key-gated routes a 403 is answered only to a credential
\* that is a key of the store, after the lookup found it; a request whose
\* credential is not in the store is answered 401.  The same holds for
\* bearer_auth under every required role set.
C23_AuthenticationBeforeAuthorization ==
    (pc = "done" /\ request.route \in {"production", "testing", "auth_any"}) =>
        /\ response.status_code = 403 =>
               /\ InStore
               /\ Len(calls) = 1 /\ calls[1].op = "lookup" /\ calls[1].result = "found"
        /\ ~InStore =>
               /\ response.status_code = 401
               /\ ~handler_ran
        /\ \A required_roles \in RequiredRoleSets :
               LET d == bearer_auth(settings.api_keys, required_roles,
                                    HTTPBearer(request.authorization))
               IN /\ d.status_code = 403 => InStore
                  /\ ~InStore => d.status_code = 401

\* an unknown key on the admin route: looked up, absent, 401
C23_Witness ==
    /\ Served("production") /\ PresentedBearer
    /\ Presented \notin DOMAIN settings.api_keys
    /\ settings.api_keys # <<>>
    /\ Len(calls) = 1 /\ calls[1].result = "absent"
    /\ response = HTTPException(401, "Invalid API Key")

-----------------------------------------------------------------------------
\* Vocabulary of the token-issuing property

\* both outbound calls were made and succeeded, and the profile has an email
\* or a mail value
ProfileOf == flow.outbound[2].reply[1].body.object
ExchangeSucceeded ==
    /\ Len(flow.outbound) = 2
    /\ ReturnedAccessToken(flow.outbound[1])
    /\ HttpSucceeded(flow.outbound[2])
    /\ flow.outbound[2].reply[1].body.kind = "object"
    /\ (truthy(get(ProfileOf, "email")) \/ truthy(get(ProfileOf, "mail")))
ProfileSubject ==
    IF truthy(get(ProfileOf, "email")) THEN get(ProfileOf, "email")
    ELSE get(ProfileOf, "mail")

\* C24: a finished exchange returns a signed token exactly when both outbound
\* calls succeeded and the profile has an email; the token is signed with the
\* process secret, its subject is the profile's email when non-empty and its
\* mail otherwise, and its provider claim is the provider named in the
\* request.  No token is returned by an exchange that failed.
C24_TokenIssuedOnSuccess ==
    (OnRoute("token") /\ pc = "done") =>
        /\ flow.access_token # None =>
               /\ ExchangeSucceeded
               /\ response.status_code = 200
               /\ SignedByProcess(flow.access_token[1])
               /\ flow.access_token[1].payload.sub = ProfileSubject
               /\ flow.access_token[1].payload.provider = Some(flow.provider)
        /\ ExchangeSucceeded =>
               /\ flow.access_token # None
               /\ response.status_code = 200
        /\ response.status_code # 200 => flow.access_token = None

====
